---- MODULE Spec2Model ----
(***************************************************************************)
(* py-email-remainder: the users API (src/app/users/urls.py) and the       *)
(* remainders API, as exercised by src/app/users/tests/test_users_api.py   *)
(* and src/app/remainders/tests/test_remainders.py.                        *)
(*                                                                         *)
(* The state is the two database tables (User rows, Remainder rows), the   *)
(* two auto-increment primary-key counters, and the last HTTP exchange     *)
(* (which route was called, by which credential, and what was answered).   *)
(* Each action is one HTTP request handled from start to finish.           *)
(***************************************************************************)
EXTENDS Integers, FiniteSets, Sequences, TLC

VARIABLES users, remainders, nextUserId, nextRemainderId, response

vars == <<users, remainders, nextUserId, nextRemainderId, response>>

(***************************************************************************)
(* Bounds of the model: how many primary keys each table may hand out.     *)
(***************************************************************************)
MaxUsers == 2
MaxRemainders == 2

UserIds == 1..MaxUsers
RemainderIds == 1..MaxRemainders

(***************************************************************************)
(* HTTP status codes asserted by the tests.                                *)
(***************************************************************************)
HTTP_200_OK == 200
HTTP_201_CREATED == 201
HTTP_204_NO_CONTENT == 204
HTTP_400_BAD_REQUEST == 400
HTTP_401_UNAUTHORIZED == 401
HTTP_404_NOT_FOUND == 404
HTTP_405_METHOD_NOT_ALLOWED == 405

(***************************************************************************)
(* Input domains.  NoCred is a request that carries no valid credential;   *)
(* any other credential is the id of the user it was issued to, whether    *)
(* that user still exists or not.                                          *)
(***************************************************************************)
NoCred == 0
Creds == {NoCred} \cup {i \in UserIds : i < nextUserId}

Emails == {"test@example.com", "other_user@example.com"}
Names == {"Test Name", "New Test Name"}
Passwords == {"", "Test1234", "Password1234"}

DefaultName == "Test Name"
DefaultPassword == "Test1234"

(* password, password_confirm pairs sent on registration and on change. *)
RegisterPasswords ==
    {<<"testtest", "testtest">>, <<"test1234", "test1234">>,
     <<"Test1234", "Test1234">>, <<"Test1234", "Password1234">>}

ChangePasswords ==
    {<<"test1234", "test1234">>, <<"Test1234", "Test1234">>,
     <<"Password1234", "Password1234">>, <<"Password1234", "Test1234">>}

(***************************************************************************)
(* Password policy and hashing.                                            *)
(***************************************************************************)
HasUpper(p) == p \in {"Testtest", "Test1234", "Password1234"}
HasDigit(p) == p \in {"test1234", "Test1234", "Password1234"}

ValidatePassword(p) == p # "" /\ HasUpper(p) /\ HasDigit(p)

make_password(raw) == <<"hashed", raw>>

check_password(raw, encoded) == encoded = make_password(raw)

(***************************************************************************)
(* Table lookups.                                                          *)
(***************************************************************************)
IsAuthenticated(cred) == \E u \in users : u.id = cred

UserOf(cred) == CHOOSE u \in users : u.id = cred

(* Faulty variant: no uniqueness check on the email. *)
EmailTakenNever(email) == FALSE

EmailTaken(email) == \E u \in users : u.email = email

UserView(u) == [email |-> u.email, name |-> u.name]

(* Faulty variant: the queryset is not limited to the caller. *)
get_queryset_all(cred) == remainders

get_queryset(cred) == {r \in remainders : r.user = cred}

(* Faulty variant: the lookup by id ignores the owner. *)
LookupAnyOwner(cred, id) == {r \in remainders : r.id = id}

(* get_object(): the rows of the caller's queryset with this id; an empty *)
(* result is answered 404.                                                 *)
Lookup(cred, id) == {r \in get_queryset(cred) : r.id = id}

HasObject(cred, id) == Lookup(cred, id) # {}

get_object(cred, id) == CHOOSE r \in Lookup(cred, id) : TRUE

(***************************************************************************)
(* The last HTTP exchange: the request (route, credential, id in the URL,   *)
(* payload) and the answer (status, body).  body is always a set of        *)
(* serialized rows.                                                        *)
(***************************************************************************)
NoPayload == <<>>

Reply(op, caller, id, payload, status, body) ==
    response' = [op |-> op, caller |-> caller, id |-> id, payload |-> payload,
                 status |-> status, body |-> body]

Init ==
    /\ users = {}
    /\ remainders = {}
    /\ nextUserId = 1
    /\ nextRemainderId = 1
    /\ response = [op |-> "none", caller |-> NoCred, id |-> 0,
                   payload |-> NoPayload, status |-> 0, body |-> {}]

(***************************************************************************)
(* POST /users/register/                                                   *)
(***************************************************************************)
RegisterNewUserView(email, password, confirm, name) ==
    LET payload == [email |-> email, password |-> password,
                    password_confirm |-> confirm, name |-> name]
    IN IF EmailTaken(email) \/ ~ValidatePassword(password) \/ password # confirm
       THEN /\ Reply("register", NoCred, 0, payload, HTTP_400_BAD_REQUEST, {})
            /\ UNCHANGED <<users, remainders, nextUserId, nextRemainderId>>
       ELSE /\ nextUserId <= MaxUsers
            /\ users' = users \cup {[id |-> nextUserId, email |-> email,
                                     name |-> name,
                                     password |-> make_password(password)]}
            /\ nextUserId' = nextUserId + 1
            /\ Reply("register", NoCred, 0, payload, HTTP_201_CREATED,
                     {[email |-> email, name |-> name]})
            /\ UNCHANGED <<remainders, nextRemainderId>>

(***************************************************************************)
(* POST /users/token/                                                      *)
(***************************************************************************)
CreateAuthTokenView(email, password) ==
    LET payload == [email |-> email, password |-> password]
    IN /\ IF \E u \in users : u.email = email /\ check_password(password, u.password)
          THEN LET u == CHOOSE x \in users : x.email = email
               IN Reply("token", NoCred, 0, payload, HTTP_200_OK, {[token |-> u.id]})
          ELSE Reply("token", NoCred, 0, payload, HTTP_400_BAD_REQUEST, {})
       /\ UNCHANGED <<users, remainders, nextUserId, nextRemainderId>>

(***************************************************************************)
(* GET /users/me/                                                          *)
(***************************************************************************)
ManageUserRetrieve(cred) ==
    /\ IF ~IsAuthenticated(cred)
       THEN Reply("me_get", cred, 0, NoPayload, HTTP_401_UNAUTHORIZED, {})
       ELSE Reply("me_get", cred, 0, NoPayload, HTTP_200_OK, {UserView(UserOf(cred))})
    /\ UNCHANGED <<users, remainders, nextUserId, nextRemainderId>>

(***************************************************************************)
(* PATCH /users/me/ : only the safe field `name` is writable.              *)
(***************************************************************************)
UserSerializerUpdate(u, payload) ==
    [u EXCEPT !.name = IF "name" \in DOMAIN payload THEN payload.name ELSE @]

ManageUserPartialUpdate(cred, payload) ==
    IF ~IsAuthenticated(cred)
    THEN /\ Reply("me_patch", cred, 0, payload, HTTP_401_UNAUTHORIZED, {})
         /\ UNCHANGED <<users, remainders, nextUserId, nextRemainderId>>
    ELSE LET old == UserOf(cred)
             new == UserSerializerUpdate(old, payload)
         IN /\ users' = (users \ {old}) \cup {new}
            /\ Reply("me_patch", cred, 0, payload, HTTP_200_OK, {UserView(new)})
            /\ UNCHANGED <<remainders, nextUserId, nextRemainderId>>

(***************************************************************************)
(* POST /users/me/ and DELETE /users/me/ : no such handler on the view.    *)
(***************************************************************************)
ManageUserMethodNotAllowed(cred) ==
    /\ IF ~IsAuthenticated(cred)
       THEN Reply("me_other", cred, 0, NoPayload, HTTP_401_UNAUTHORIZED, {})
       ELSE Reply("me_other", cred, 0, NoPayload, HTTP_405_METHOD_NOT_ALLOWED, {})
    /\ UNCHANGED <<users, remainders, nextUserId, nextRemainderId>>

(***************************************************************************)
(* PATCH /users/me/changepassword/                                         *)
(***************************************************************************)
ChangeUserPasswordView(cred, password, confirm) ==
    LET payload == [password |-> password, password_confirm |-> confirm]
    IN IF ~IsAuthenticated(cred)
       THEN /\ Reply("change_password", cred, 0, payload, HTTP_401_UNAUTHORIZED, {})
            /\ UNCHANGED <<users, remainders, nextUserId, nextRemainderId>>
       ELSE IF ~ValidatePassword(password) \/ password # confirm
       THEN /\ Reply("change_password", cred, 0, payload, HTTP_400_BAD_REQUEST, {})
            /\ UNCHANGED <<users, remainders, nextUserId, nextRemainderId>>
       ELSE LET old == UserOf(cred)
                new == [old EXCEPT !.password = make_password(password)]
            IN /\ users' = (users \ {old}) \cup {new}
               /\ Reply("change_password", cred, 0, payload, HTTP_200_OK, {})
               /\ UNCHANGED <<remainders, nextUserId, nextRemainderId>>

(***************************************************************************)
(* DELETE /users/me/delete/                                                *)
(***************************************************************************)
(* Faulty variant: any non-empty password is accepted. *)
DeleteMeStatusNoCheck(u, password) ==
    IF password = "" THEN HTTP_400_BAD_REQUEST ELSE HTTP_204_NO_CONTENT

(* Variant answering a wrong password with 401 instead of 400. *)
DeleteMeStatusUnauthorized(u, password) ==
    IF password = "" THEN HTTP_400_BAD_REQUEST
    ELSE IF ~check_password(password, u.password) THEN HTTP_401_UNAUTHORIZED
    ELSE HTTP_204_NO_CONTENT

DeleteMeStatus(u, password) ==
    IF password = "" THEN HTTP_400_BAD_REQUEST
    ELSE IF ~check_password(password, u.password) THEN HTTP_400_BAD_REQUEST
    ELSE HTTP_204_NO_CONTENT

(* Faulty variant: the user row goes and its remainders stay. *)
RemaindersAfterDeleteNoCascade(u) == remainders

(* user.delete(): the row goes, and with it the remainders it owns. *)
RemaindersAfterDelete(u) == {r \in remainders : r.user # u.id}

DeleteMeView(cred, password) ==
    LET payload == [password |-> password]
    IN IF ~IsAuthenticated(cred)
       THEN /\ Reply("delete_me", cred, 0, payload, HTTP_401_UNAUTHORIZED, {})
            /\ UNCHANGED <<users, remainders, nextUserId, nextRemainderId>>
       ELSE LET u == UserOf(cred)
                status == DeleteMeStatus(u, password)
            IN IF status # HTTP_204_NO_CONTENT
               THEN /\ Reply("delete_me", cred, 0, payload, status, {})
                    /\ UNCHANGED <<users, remainders, nextUserId, nextRemainderId>>
               ELSE /\ users' = users \ {u}
                    /\ remainders' = RemaindersAfterDelete(u)
                    /\ Reply("delete_me", cred, 0, payload, status, {})
                    /\ UNCHANGED <<nextUserId, nextRemainderId>>

(***************************************************************************)
(* Remainder rows and request payloads.  A payload is a record holding     *)
(* only the fields the client sent.  remainder_date is counted in days:    *)
(* 1 and 2 are two different dates.                                        *)
(***************************************************************************)
(* Owner values a client may try to smuggle in through a `user` field. *)
OwnerFieldValues == {1}

TestPayload ==
    [title |-> "Agatka's Birthday", remainder_date |-> 1,
     description |-> "Agatka's birthday yearly remainder.", permanent |-> TRUE]

CreatePayloads ==
    {TestPayload, [description |-> "Updated Description"]}
    \cup {[title |-> "Other", remainder_date |-> 2, user |-> u] : u \in OwnerFieldValues}

PatchPayloads ==
    {[remainder_date |-> 2]} \cup {[user |-> u] : u \in OwnerFieldValues}

PutPayloads ==
    {[title |-> "Updated Title", remainder_date |-> 2,
      description |-> "Updated Description"],
     [remainder_date |-> 2, description |-> "Updated Description"]}
    \cup {[title |-> "Updated Title", remainder_date |-> 2,
           description |-> "Updated Description", user |-> u] : u \in OwnerFieldValues}

(* Fields the serializer requires on POST and PUT. *)
RequiredFields == {"title", "remainder_date"}

IsValid(payload) == RequiredFields \subseteq DOMAIN payload

(* Value a field takes when a full (non-partial) payload omits it. *)
FieldDefault(f) ==
    CASE f = "description" -> ""
      [] f = "permanent" -> FALSE

Supplied(payload, f, default) ==
    IF f \in DOMAIN payload THEN payload[f] ELSE default

(* serializer.save(user=request.user) on POST: the owner is the caller. *)
SerializerCreate(cred, id, payload) ==
    [id |-> id,
     user |-> cred,
     title |-> payload.title,
     description |-> Supplied(payload, "description", FieldDefault("description")),
     remainder_date |-> payload.remainder_date,
     permanent |-> Supplied(payload, "permanent", FieldDefault("permanent"))]

(* Faulty variant: `user` is writable on PATCH. *)
SerializerPartialUpdateWritableUser(r, payload) ==
    [id |-> r.id,
     user |-> Supplied(payload, "user", r.user),
     title |-> Supplied(payload, "title", r.title),
     description |-> Supplied(payload, "description", r.description),
     remainder_date |-> Supplied(payload, "remainder_date", r.remainder_date),
     permanent |-> Supplied(payload, "permanent", r.permanent)]

(* Faulty variant: PATCH resets an omitted `permanent` to its default. *)
SerializerPartialUpdateResetsPermanent(r, payload) ==
    [id |-> r.id,
     user |-> r.user,
     title |-> Supplied(payload, "title", r.title),
     description |-> Supplied(payload, "description", r.description),
     remainder_date |-> Supplied(payload, "remainder_date", r.remainder_date),
     permanent |-> Supplied(payload, "permanent", FieldDefault("permanent"))]

(* PATCH: only supplied fields change; id and user are read-only. *)
SerializerPartialUpdate(r, payload) ==
    [id |-> r.id,
     user |-> r.user,
     title |-> Supplied(payload, "title", r.title),
     description |-> Supplied(payload, "description", r.description),
     remainder_date |-> Supplied(payload, "remainder_date", r.remainder_date),
     permanent |-> Supplied(payload, "permanent", r.permanent)]

(* Faulty variant: PUT keeps the old `permanent` when the payload omits it. *)
SerializerUpdateKeepsPermanent(r, payload) ==
    [id |-> r.id,
     user |-> r.user,
     title |-> payload.title,
     description |-> Supplied(payload, "description", FieldDefault("description")),
     remainder_date |-> payload.remainder_date,
     permanent |-> Supplied(payload, "permanent", r.permanent)]

(* PUT: every mutable field is replaced; id and user are read-only. *)
SerializerUpdate(r, payload) ==
    [id |-> r.id,
     user |-> r.user,
     title |-> payload.title,
     description |-> Supplied(payload, "description", FieldDefault("description")),
     remainder_date |-> payload.remainder_date,
     permanent |-> Supplied(payload, "permanent", FieldDefault("permanent"))]

(* Faulty variant: the list route does not require authentication. *)
RemaindersListNoAuth(cred) ==
    /\ Reply("list", cred, 0, NoPayload, HTTP_200_OK, get_queryset(cred))
    /\ UNCHANGED <<users, remainders, nextUserId, nextRemainderId>>

(***************************************************************************)
(* GET /remainders/                                                        *)
(***************************************************************************)
RemaindersList(cred) ==
    /\ IF ~IsAuthenticated(cred)
       THEN Reply("list", cred, 0, NoPayload, HTTP_401_UNAUTHORIZED, {})
       ELSE Reply("list", cred, 0, NoPayload, HTTP_200_OK, get_queryset(cred))
    /\ UNCHANGED <<users, remainders, nextUserId, nextRemainderId>>

(***************************************************************************)
(* POST /remainders/                                                       *)
(***************************************************************************)
RemaindersCreate(cred, payload) ==
    IF ~IsAuthenticated(cred)
    THEN /\ Reply("create", cred, 0, payload, HTTP_401_UNAUTHORIZED, {})
         /\ UNCHANGED <<users, remainders, nextUserId, nextRemainderId>>
    ELSE IF ~IsValid(payload)
    THEN /\ Reply("create", cred, 0, payload, HTTP_400_BAD_REQUEST, {})
         /\ UNCHANGED <<users, remainders, nextUserId, nextRemainderId>>
    ELSE LET new == SerializerCreate(cred, nextRemainderId, payload)
         IN /\ nextRemainderId <= MaxRemainders
            /\ remainders' = remainders \cup {new}
            /\ nextRemainderId' = nextRemainderId + 1
            /\ Reply("create", cred, new.id, payload, HTTP_201_CREATED, {new})
            /\ UNCHANGED <<users, nextUserId>>

(***************************************************************************)
(* GET /remainders/{id}/                                                   *)
(***************************************************************************)
RemaindersRetrieve(cred, id) ==
    /\ IF ~IsAuthenticated(cred)
       THEN Reply("retrieve", cred, id, NoPayload, HTTP_401_UNAUTHORIZED, {})
       ELSE IF ~HasObject(cred, id)
       THEN Reply("retrieve", cred, id, NoPayload, HTTP_404_NOT_FOUND, {})
       ELSE Reply("retrieve", cred, id, NoPayload, HTTP_200_OK, {get_object(cred, id)})
    /\ UNCHANGED <<users, remainders, nextUserId, nextRemainderId>>

(***************************************************************************)
(* PATCH /remainders/{id}/                                                 *)
(***************************************************************************)
RemaindersPartialUpdate(cred, id, payload) ==
    IF ~IsAuthenticated(cred)
    THEN /\ Reply("partial_update", cred, id, payload, HTTP_401_UNAUTHORIZED, {})
         /\ UNCHANGED <<users, remainders, nextUserId, nextRemainderId>>
    ELSE IF ~HasObject(cred, id)
    THEN /\ Reply("partial_update", cred, id, payload, HTTP_404_NOT_FOUND, {})
         /\ UNCHANGED <<users, remainders, nextUserId, nextRemainderId>>
    ELSE LET old == get_object(cred, id)
             new == SerializerPartialUpdate(old, payload)
         IN /\ remainders' = (remainders \ {old}) \cup {new}
            /\ Reply("partial_update", cred, id, payload, HTTP_200_OK, {new})
            /\ UNCHANGED <<users, nextUserId, nextRemainderId>>

(***************************************************************************)
(* PUT /remainders/{id}/                                                   *)
(***************************************************************************)
RemaindersUpdate(cred, id, payload) ==
    IF ~IsAuthenticated(cred)
    THEN /\ Reply("update", cred, id, payload, HTTP_401_UNAUTHORIZED, {})
         /\ UNCHANGED <<users, remainders, nextUserId, nextRemainderId>>
    ELSE IF ~HasObject(cred, id)
    THEN /\ Reply("update", cred, id, payload, HTTP_404_NOT_FOUND, {})
         /\ UNCHANGED <<users, remainders, nextUserId, nextRemainderId>>
    ELSE IF ~IsValid(payload)
    THEN /\ Reply("update", cred, id, payload, HTTP_400_BAD_REQUEST, {})
         /\ UNCHANGED <<users, remainders, nextUserId, nextRemainderId>>
    ELSE LET old == get_object(cred, id)
             new == SerializerUpdate(old, payload)
         IN /\ remainders' = (remainders \ {old}) \cup {new}
            /\ Reply("update", cred, id, payload, HTTP_200_OK, {new})
            /\ UNCHANGED <<users, nextUserId, nextRemainderId>>

(***************************************************************************)
(* DELETE /remainders/{id}/                                                *)
(***************************************************************************)
RemaindersDestroy(cred, id) ==
    IF ~IsAuthenticated(cred)
    THEN /\ Reply("destroy", cred, id, NoPayload, HTTP_401_UNAUTHORIZED, {})
         /\ UNCHANGED <<users, remainders, nextUserId, nextRemainderId>>
    ELSE IF ~HasObject(cred, id)
    THEN /\ Reply("destroy", cred, id, NoPayload, HTTP_404_NOT_FOUND, {})
         /\ UNCHANGED <<users, remainders, nextUserId, nextRemainderId>>
    ELSE /\ remainders' = remainders \ {get_object(cred, id)}
         /\ Reply("destroy", cred, id, NoPayload, HTTP_204_NO_CONTENT, {})
         /\ UNCHANGED <<users, nextUserId, nextRemainderId>>

(***************************************************************************)
(* Requests, with their inputs drawn from the input domains.               *)
(***************************************************************************)
UserPatchPayloads ==
    {[name |-> n] : n \in Names}
    \cup {[email |-> "other_user@example.com", id |-> 2],
          [name |-> "New Test Name", email |-> "test@example.com"]}

Register ==
    \E e \in Emails, p \in RegisterPasswords, n \in Names :
        RegisterNewUserView(e, p[1], p[2], n)

RegisterDefault ==
    \E e \in Emails :
        RegisterNewUserView(e, DefaultPassword, DefaultPassword, DefaultName)

Token == \E e \in Emails, p \in Passwords : CreateAuthTokenView(e, p)

GetSelf == \E c \in Creds : ManageUserRetrieve(c)

UpdateSelf == \E c \in Creds, p \in UserPatchPayloads : ManageUserPartialUpdate(c, p)

MeOther == \E c \in Creds : ManageUserMethodNotAllowed(c)

ChangePassword ==
    \E c \in Creds, p \in ChangePasswords : ChangeUserPasswordView(c, p[1], p[2])

DeleteSelf == \E c \in Creds, p \in Passwords : DeleteMeView(c, p)

List == \E c \in Creds : RemaindersList(c)

Create == \E c \in Creds, p \in CreatePayloads : RemaindersCreate(c, p)

Get == \E c \in Creds, i \in RemainderIds : RemaindersRetrieve(c, i)

PartialUpdate ==
    \E c \in Creds, i \in RemainderIds, p \in PatchPayloads :
        RemaindersPartialUpdate(c, i, p)

FullUpdate ==
    \E c \in Creds, i \in RemainderIds, p \in PutPayloads :
        RemaindersUpdate(c, i, p)

Delete == \E c \in Creds, i \in RemainderIds : RemaindersDestroy(c, i)

(***************************************************************************)
(* The whole API.                                                          *)
(***************************************************************************)
Next ==
    \/ Register
    \/ Token
    \/ GetSelf
    \/ UpdateSelf
    \/ MeOther
    \/ ChangePassword
    \/ DeleteSelf
    \/ List
    \/ Create
    \/ Get
    \/ PartialUpdate
    \/ FullUpdate
    \/ Delete

Spec == Init /\ [][Next]_vars

(***************************************************************************)
(* The remainders API over accounts registered with one name and password. *)
(***************************************************************************)
NextRemainders ==
    \/ RegisterDefault
    \/ List
    \/ Create
    \/ Get
    \/ PartialUpdate
    \/ FullUpdate
    \/ Delete

SpecRemainders == Init /\ [][NextRemainders]_vars

(***************************************************************************)
(* The users API, with remainders created from a single payload.           *)
(***************************************************************************)
CreateTest == \E c \in Creds : RemaindersCreate(c, TestPayload)

RegisterNamed ==
    \E e \in Emails, p \in RegisterPasswords :
        RegisterNewUserView(e, p[1], p[2], DefaultName)

NextUsers ==
    \/ RegisterNamed
    \/ UpdateSelf
    \/ ChangePassword
    \/ DeleteSelf
    \/ CreateTest

SpecUsers == Init /\ [][NextUsers]_vars

(***************************************************************************)
(* Every route that requires authentication.  Accounts and remainders are  *)
(* created and accounts deleted by any client; the routes that rewrite a   *)
(* row are called by clients whose credential resolves to no user (none    *)
(* sent, or the token of a deleted account).                               *)
(***************************************************************************)
AnonymousUpdateSelf ==
    \E c \in Creds, p \in UserPatchPayloads :
        ~IsAuthenticated(c) /\ ManageUserPartialUpdate(c, p)

AnonymousChangePassword ==
    \E c \in Creds, p \in ChangePasswords :
        ~IsAuthenticated(c) /\ ChangeUserPasswordView(c, p[1], p[2])

AnonymousPartialUpdate ==
    \E c \in Creds, i \in RemainderIds, p \in PatchPayloads :
        ~IsAuthenticated(c) /\ RemaindersPartialUpdate(c, i, p)

AnonymousFullUpdate ==
    \E c \in Creds, i \in RemainderIds, p \in PutPayloads :
        ~IsAuthenticated(c) /\ RemaindersUpdate(c, i, p)

AnonymousDelete ==
    \E c \in Creds, i \in RemainderIds :
        ~IsAuthenticated(c) /\ RemaindersDestroy(c, i)

NextAuth ==
    \/ RegisterDefault
    \/ GetSelf
    \/ AnonymousUpdateSelf
    \/ AnonymousChangePassword
    \/ DeleteSelf
    \/ List
    \/ Create
    \/ Get
    \/ AnonymousPartialUpdate
    \/ AnonymousFullUpdate
    \/ AnonymousDelete

SpecAuth == Init /\ [][NextAuth]_vars

(***************************************************************************)
(* Properties.  In an action formula, response' is the exchange the step   *)
(* has just handled, and the unprimed tables are the rows before it.       *)
(***************************************************************************)
DetailOps == {"retrieve", "partial_update", "update", "destroy"}

AuthRequiredOps ==
    {"me_get", "me_patch", "change_password", "delete_me",
     "list", "create", "retrieve", "partial_update", "update", "destroy"}

MutableFields == {"title", "description", "remainder_date", "permanent"}

IdsOf(rows) == {x.id : x \in rows}

(* C1: a detail request (get, patch, put, delete) by an authenticated user *)
(* for a remainder owned by someone else is answered 404, and the          *)
(* remainder is still there afterwards with every field unchanged.         *)
C1_ForeignRemainderNotFound ==
    [][\A r \in remainders :
          ( /\ response'.op \in DetailOps
            /\ response'.id = r.id
            /\ IsAuthenticated(response'.caller)
            /\ response'.caller # r.user )
          => ( /\ response'.status = HTTP_404_NOT_FOUND
               /\ r \in remainders' )]_vars

C1_Witness ==
    /\ response.op = "destroy"
    /\ response.status = HTTP_404_NOT_FOUND
    /\ IsAuthenticated(response.caller)
    /\ \E r \in remainders : r.id = response.id /\ r.user # response.caller

(* C2: a successful list answers exactly the remainders owned by the       *)
(* caller: all of them, and none owned by another user.                    *)
C2_ListIsCallersRemainders ==
    (response.op = "list" /\ response.status = HTTP_200_OK)
    => /\ \A r \in remainders : r.user = response.caller => r \in response.body
       /\ \A r \in response.body : r \in remainders /\ r.user = response.caller

C2_Witness ==
    /\ response.op = "list"
    /\ response.status = HTTP_200_OK
    /\ response.body # {}
    /\ \E r \in remainders : r.user # response.caller

(* C3: a remainder appears only through create, owned by the caller of     *)
(* that create whatever `user` the payload names; afterwards no step       *)
(* changes its owner, and patch and put leave the set of ids as it was.    *)
C3_OwnerFixedAtCreate ==
    [][ /\ \A new \in remainders' :
              IF new.id \in IdsOf(remainders)
              THEN \A old \in remainders : old.id = new.id => old.user = new.user
              ELSE /\ response'.op = "create"
                   /\ response'.status = HTTP_201_CREATED
                   /\ new.user = response'.caller
        /\ response'.op \in {"partial_update", "update"}
              => IdsOf(remainders') = IdsOf(remainders) ]_vars

C3_Witness ==
    /\ response.op = "partial_update"
    /\ response.status = HTTP_200_OK
    /\ "user" \in DOMAIN response.payload
    /\ response.payload.user # response.caller
    /\ \E u \in users : u.id = response.payload.user
    /\ \E r \in remainders : r.id = response.id /\ r.user = response.caller

(* C4: a successful patch sets the fields the payload carries, leaves the  *)
(* other fields and the owner of that remainder as they were, and touches  *)
(* no other remainder.                                                     *)
C4_PartialUpdateFrame ==
    [][ (response'.op = "partial_update" /\ response'.status = HTTP_200_OK)
        => \E old \in remainders, new \in remainders' :
              /\ old.id = response'.id
              /\ new.id = response'.id
              /\ new.user = old.user
              /\ \A f \in MutableFields :
                    new[f] = IF f \in DOMAIN response'.payload
                             THEN response'.payload[f] ELSE old[f]
              /\ remainders' \ {new} = remainders \ {old} ]_vars

C4_Witness ==
    /\ response.op = "partial_update"
    /\ response.status = HTTP_200_OK
    /\ DOMAIN response.payload = {"remainder_date"}
    /\ Cardinality(remainders) >= 2
    /\ \E r \in remainders :
          /\ r.id = response.id
          /\ r.remainder_date = response.payload.remainder_date
          /\ r.title = TestPayload.title
          /\ r.permanent = TRUE

(* C5: a successful put whose payload omits `permanent` leaves the         *)
(* remainder with permanent = FALSE, its title, description and date as    *)
(* supplied (an omitted description becomes empty), and its owner as       *)
(* before.                                                                 *)
C5_FullUpdateResetsPermanent ==
    [][ ( /\ response'.op = "update"
          /\ response'.status = HTTP_200_OK
          /\ "permanent" \notin DOMAIN response'.payload )
        => \E old \in remainders, new \in remainders' :
              /\ old.id = response'.id
              /\ new.id = response'.id
              /\ new.permanent = FALSE
              /\ new.title = response'.payload.title
              /\ new.description = Supplied(response'.payload, "description", "")
              /\ new.remainder_date = response'.payload.remainder_date
              /\ new.user = old.user ]_vars

C5_Witness ==
    /\ response.op = "update"
    /\ response.status = HTTP_200_OK
    /\ "permanent" \notin DOMAIN response.payload
    /\ \E r \in remainders :
          /\ r.id = response.id
          /\ r.permanent = FALSE
          /\ r.title = "Updated Title"
          /\ r.user = response.caller

(* Whether the password of a delete request fails against user u. *)
WrongPassword(u, password) == password # "" /\ ~check_password(password, u.password)

(* C6: a delete-me request with an empty or wrong password is rejected and *)
(* changes no user and no remainder; a user row disappears only through a  *)
(* delete-me request by that user carrying the user's current password.    *)
C6_DeleteSelfNeedsPassword ==
    [][ /\ \A u \in users :
              ( /\ response'.op = "delete_me"
                /\ response'.caller = u.id
                /\ (response'.payload.password = ""
                    \/ WrongPassword(u, response'.payload.password)) )
              => ( /\ response'.status # HTTP_204_NO_CONTENT
                   /\ users' = users
                   /\ remainders' = remainders )
        /\ \A u \in users :
              u.id \notin IdsOf(users')
              => ( /\ response'.op = "delete_me"
                   /\ response'.caller = u.id
                   /\ check_password(response'.payload.password, u.password) ) ]_vars

C6_Witness ==
    /\ response.op = "delete_me"
    /\ response.payload.password = ""
    /\ response.status = HTTP_400_BAD_REQUEST
    /\ \E u \in users : u.id = response.caller
    /\ \E r \in remainders : r.user = response.caller

(* C7 as stated: an empty password is answered 400 and a wrong non-empty   *)
(* password is answered 401.                                               *)
C7_WrongPasswordIs401 ==
    \A u \in users :
       (response.op = "delete_me" /\ response.caller = u.id)
       => /\ response.payload.password = ""
                => response.status = HTTP_400_BAD_REQUEST
          /\ WrongPassword(u, response.payload.password)
                => response.status = HTTP_401_UNAUTHORIZED

(* C7, amended: an empty password and a wrong non-empty password are both  *)
(* answered 400.                                                           *)
C7_RejectedDeleteSelfIs400 ==
    \A u \in users :
       (response.op = "delete_me" /\ response.caller = u.id)
       => /\ response.payload.password = ""
                => response.status = HTTP_400_BAD_REQUEST
          /\ WrongPassword(u, response.payload.password)
                => response.status = HTTP_400_BAD_REQUEST

C7_Witness ==
    /\ response.op = "delete_me"
    /\ response.status = HTTP_400_BAD_REQUEST
    /\ \E u \in users :
          u.id = response.caller /\ WrongPassword(u, response.payload.password)

(* C8: no two user rows ever share an email; registering a taken email is  *)
(* answered 400 and leaves the users as they were; a profile update never  *)
(* changes an email.                                                       *)
UniqueEmails(rows) == \A u \in rows, v \in rows : u.email = v.email => u = v

C8_EmailsStayUnique ==
    [][ /\ UniqueEmails(users')
        /\ (response'.op = "register" /\ EmailTaken(response'.payload.email))
              => (response'.status = HTTP_400_BAD_REQUEST /\ users' = users)
        /\ response'.op = "me_patch"
              => \A u \in users, v \in users' : u.id = v.id => u.email = v.email ]_vars

C8_Witness ==
    /\ response.op = "register"
    /\ response.status = HTTP_400_BAD_REQUEST
    /\ EmailTaken(response.payload.email)
    /\ ValidatePassword(response.payload.password)
    /\ response.payload.password = response.payload.password_confirm

(* C9: a request to a route that requires authentication, made with a      *)
(* credential that resolves to no user, is answered 401 and changes no     *)
(* user and no remainder.                                                  *)
C9_UnauthenticatedIs401 ==
    [][ (response'.op \in AuthRequiredOps /\ ~IsAuthenticated(response'.caller))
        => ( /\ response'.status = HTTP_401_UNAUTHORIZED
             /\ users' = users
             /\ remainders' = remainders ) ]_vars

C9_Witness ==
    /\ response.op = "list"
    /\ response.caller = NoCred
    /\ response.status = HTTP_401_UNAUTHORIZED
    /\ users # {}
    /\ remainders # {}

(* C10: every remainder is owned by exactly one existing user; a           *)
(* successful delete-me removes the caller's row and every remainder the   *)
(* caller owns, and nothing else.                                          *)
OwnersExist(us, rs) ==
    \A r \in rs : Cardinality({u \in us : u.id = r.user}) = 1

C10_DeleteSelfCascades ==
    [][ /\ OwnersExist(users', remainders')
        /\ (response'.op = "delete_me" /\ response'.status = HTTP_204_NO_CONTENT)
              => /\ users' = {u \in users : u.id # response'.caller}
                 /\ remainders' = {r \in remainders : r.user # response'.caller} ]_vars

C10_Witness ==
    /\ response.op = "delete_me"
    /\ response.status = HTTP_204_NO_CONTENT
    /\ users # {}
    /\ remainders # {}
    /\ Cardinality(remainders) < nextRemainderId - 1

====
